---- MODULE Spec2Model ----
(***************************************************************************)
(* Model of NDKRelayConnectivity (src/ndk/src/relay/connectivity.ts): the  *)
(* per-relay connection object, its WebSocket(s), its timers, its three    *)
(* correlation registries and the promises it hands out.                   *)
(*                                                                         *)
(* The object's fields and everything its handlers touch are gathered in   *)
(* one record (a "world"), because the handlers call one another           *)
(* sequentially (connect -> handleReconnection, onMessage -> onNotice ->   *)
(* disconnect ...).  Every method is an operator from world to world; an   *)
(* action of the state machine applies one public method, one socket       *)
(* event or one timer callback to the current world and commits it.        *)
(*                                                                         *)
(* Time is not tracked: a pending timer may fire at any moment, and the    *)
(* value of Date.now() - connectedAt is an input of the step that          *)
(* computes it.                                                            *)
(***************************************************************************)
EXTENDS Integers, Sequences, FiniteSets, TLC

\* ------------------------------------------------------------------ bounds
MaxAttempts == 3
MaxSessions == 1
MaxSerial == 2
MaxFutures == 2
MaxNoticeTimers == 1
MaxChainTimers == 1
MaxAuthFlows == 1
MaxFailedAttempts == 7
MaxReadyCalls == 2
MaxRequests == 1
MaxLogLen == 6
MaxCycleAttempts == 4

\* ------------------------------------------------------- program constants
MAX_RECONNECT_ATTEMPTS == 5
MaxDurations == 100
FlapStdDev == 1000
ReconnectWindow == 60000
ColdDelayUnit == 5000
NoReconnectDelay == 172800000
ChainDelayUnit == 1000
ChainDelayXor == 4
NoticeDelay == 2000
HandshakeDelay == 100
RpcKind == 24133

\* ------------------------------------------------------------ value sets
\* an unset timer handle / an unset `attempt`
NoTimer == -1

\* Date.now() - connectedAt, as observed by the step that computes it (ms).
Elapsed == {500, 3000}
\* Date.now() - undefined is NaN
NaN == -1

\* ids a caller may pass to prepareSubscription / count, and event ids.
GivenIds == {"a"}
EventIds == {"a", "e"}
AuthEventId == "au"
Digits == <<"1", "2", "3", "4", "5", "6", "7", "8", "9">>
DefaultSubId(n) == "sub:" \o Digits[n]
DefaultCountId(n) == "count:" \o Digits[n]
\* ids an inbound frame may carry, per registry it is looked up in
SubIds == GivenIds \cup {DefaultSubId(n) : n \in 1..MaxSerial}
CountIds == GivenIds \cup {DefaultCountId(n) : n \in 1..MaxSerial}
PublishIds == EventIds \cup {AuthEventId}

Reasons == {"r1", "r2"}
\* NOTICE texts, cut into pieces so that String.includes can be computed
Notices == {<<"hello">>, <<"T", "oo many", " subs">>, <<"M", "aximum", " reached">>}
Counts == {"7"}
Challenges == {"ch"}
\* kinds of inbound events, and the filter lists of subscriptions (a filter
\* is reduced to its `kinds`): kind 1 satisfies both filters, kind 2 only
\* the second, kind 3 none
Kinds == {1, 2, 3}
FilterSets == {<<{1}, {1, 2}>>}

VARIABLES
    status,             \* this._status
    ws,                 \* this.ws: index into socks, 0 when undefined
    socks,              \* readyState of every WebSocket created so far
    factoryThrows,      \* whether `new WebSocket(url)` throws for this url
    connectTimeout,     \* this.connectTimeout: "none", or the captured `reconnect`
    reconnectTimeout,   \* this.reconnectTimeout: NoTimer, or the captured `attempt`
    chainTimers,        \* untracked timers of line 408: attempt -> how many pending
    noticeTimers,       \* untracked timers of line 360: how many pending
    connectedAt,        \* this.connectedAt (never assigned by the class): 0 = undefined
    stats,              \* this._connectionStats
    openSubs,           \* this.openSubs: id -> handle index
    openCountRequests,  \* this.openCountRequests: id -> future index
    openEventPublishes, \* this.openEventPublishes: id -> future index
    serial,             \* this.serial
    subs,               \* every NDKRelaySubscription created so far
    futs,               \* every promise handed out by publish/count/auth
    authFlows,          \* suspended onAuthRequested invocations
    lastOp,             \* the operation the last step performed
    out,                \* what the last step did to the outside world
    constructed,        \* whether the NDKNip46Signer below has been constructed
    nip05,              \* NDKNip46Signer.nip05: <<>> when undefined
    remotePubkey,       \* NDKNip46Signer.remotePubkey: "" when undefined
    token,              \* NDKNip46Signer.token: "" when undefined
    readyCalls,         \* the invocations of blockUntilReady, each at its await
    lookups,            \* pending promises of NDKUser.fromNip05
    rpcCalls            \* the calls made on this.rpc so far, in order

vars ==
    <<status, ws, socks, factoryThrows, connectTimeout, reconnectTimeout,
      chainTimers, noticeTimers, connectedAt, stats, openSubs,
      openCountRequests, openEventPublishes, serial, subs, futs, authFlows,
      lastOp, out, constructed, nip05, remotePubkey, token, readyCalls, lookups,
      rpcCalls>>

\* the fields of the remote signer session and what surrounds it
signerVars == <<constructed, nip05, remotePubkey, token, readyCalls, lookups, rpcCalls>>

\* The current world: the object, its sockets, timers and promises.
World ==
    [status |-> status, ws |-> ws, socks |-> socks, factoryThrows |-> factoryThrows,
     connectTimeout |-> connectTimeout, reconnectTimeout |-> reconnectTimeout,
     chainTimers |-> chainTimers, noticeTimers |-> noticeTimers,
     connectedAt |-> connectedAt, stats |-> stats, openSubs |-> openSubs,
     openCountRequests |-> openCountRequests,
     openEventPublishes |-> openEventPublishes, serial |-> serial, subs |-> subs,
     futs |-> futs, authFlows |-> authFlows, out |-> out]

\* What a step shows to the outside: events emitted on ndkRelay, callbacks
\* of subscription handles invoked, frames written to a socket, promises
\* settled (and with what), errors thrown to the caller, promise rejections
\* nobody handles, timers started (what they will call, and their delay).
NoOut ==
    [emitted |-> <<>>, cbs |-> {}, wrote |-> <<>>, settled |-> {}, thrown |-> "none",
     unhandled |-> {}, scheduled |-> {}]

Begin(w) == [w EXCEPT !.out = NoOut]

Commit(w, op) ==
    /\ status' = w.status
    /\ ws' = w.ws
    /\ socks' = w.socks
    /\ factoryThrows' = w.factoryThrows
    /\ connectTimeout' = w.connectTimeout
    /\ reconnectTimeout' = w.reconnectTimeout
    /\ chainTimers' = w.chainTimers
    /\ noticeTimers' = w.noticeTimers
    /\ connectedAt' = w.connectedAt
    /\ stats' = w.stats
    /\ openSubs' = w.openSubs
    /\ openCountRequests' = w.openCountRequests
    /\ openEventPublishes' = w.openEventPublishes
    /\ serial' = w.serial
    /\ subs' = w.subs
    /\ futs' = w.futs
    /\ authFlows' = w.authFlows
    /\ out' = w.out
    /\ lastOp' = op
    /\ UNCHANGED signerVars

emit(w, e) == [w EXCEPT !.out.emitted = Append(@, e)]

\* setTimeout(callback, delay)
schedule(w, callback, delay) == [w EXCEPT !.out.scheduled = @ \cup {<<callback, delay>>}]

Max(a, b) == IF a >= b THEN a ELSE b

RECURSIVE SumSeq(_)
SumSeq(s) == IF s = <<>> THEN 0 ELSE Head(s) + SumSeq(Tail(s))

RECURSIVE SumSquares(_)
SumSquares(s) == IF s = <<>> THEN 0 ELSE Head(s) * Head(s) + SumSquares(Tail(s))

\* updateConnectionStats.attempt / .connected / .disconnected
attempt(w) == [w EXCEPT !.stats.attempts = @ + 1]

connected(w) == [w EXCEPT !.stats.success = @ + 1, !.stats.connectedAt = TRUE]

disconnected(w, elapsed) ==
    IF w.stats.connectedAt
    THEN LET pushed == Append(w.stats.durations, elapsed)
             kept == IF Len(pushed) > MaxDurations THEN Tail(pushed) ELSE pushed
         IN  [w EXCEPT !.stats.durations = kept, !.stats.connectedAt = FALSE]
    ELSE [w EXCEPT !.stats.connectedAt = FALSE]

\* isFlapping: stdDev < 1000, with stdDev = sqrt(sum((x - avg)^2) / n) and
\* avg = sum / n.  Over the reals sum((x - avg)^2) = sum(x^2) - sum^2 / n, so
\* stdDev < 1000 iff n * sum(x^2) - sum^2 < 1000^2 * n^2.  For n = 0 the
\* code divides 0 by 0: avg, variance and stdDev are NaN and NaN < 1000 is false.
\* isFlapping without the test of line 331
isFlapping_anyLength(durations) ==
    LET n == Len(durations)
        sum == SumSeq(durations)
    IN  IF n = 0 THEN FALSE
        ELSE n * SumSquares(durations) - sum * sum < FlapStdDev * FlapStdDev * n * n

isFlapping(durations) ==
    LET n == Len(durations)
        sum == SumSeq(durations)
    IN  IF n % 3 # 0 THEN FALSE
        ELSE IF n = 0 THEN FALSE
        ELSE n * SumSquares(durations) - sum * sum < FlapStdDev * FlapStdDev * n * n

\* the delay of line 392-394; `since` is Date.now() - this.connectedAt
reconnectDelay(w, since) ==
    IF w.connectedAt # 0
    THEN Max(0, ReconnectWindow - since)
    ELSE ColdDelayUnit * (w.stats.attempts + 1)

\* handleReconnection without the `return` of its flapping branch
handleReconnection_fallsThrough(w, att, since) ==
    IF w.reconnectTimeout # NoTimer THEN w
    ELSE LET w1 == IF isFlapping(w.stats.durations)
                   THEN [emit(w, <<"flapping">>) EXCEPT !.status = "FLAPPING"]
                   ELSE w
             delay == reconnectDelay(w1, since)
         IN  [emit(schedule(w1, "reconnect", delay), <<"delayed-connect", delay>>) EXCEPT
                 !.reconnectTimeout = att,
                 !.stats.nextReconnectAt = delay]

\* handleReconnection without the test of line 383 for a pending timer
handleReconnection_rearms(w, att, since) ==
    IF isFlapping(w.stats.durations)
    THEN [emit(w, <<"flapping">>) EXCEPT !.status = "FLAPPING"]
    ELSE LET delay == reconnectDelay(w, since)
         IN  [emit(schedule(w, "reconnect", delay), <<"delayed-connect", delay>>) EXCEPT
                 !.reconnectTimeout = att,
                 !.stats.nextReconnectAt = delay]

\* handleReconnection(attempt): the timer it sets captures `attempt`.
handleReconnection(w, att, since) ==
    IF w.reconnectTimeout # NoTimer THEN w
    ELSE IF isFlapping(w.stats.durations)
    THEN [emit(w, <<"flapping">>) EXCEPT !.status = "FLAPPING"]
    ELSE LET delay == reconnectDelay(w, since)
         IN  [emit(schedule(w, "reconnect", delay), <<"delayed-connect", delay>>) EXCEPT
                 !.reconnectTimeout = att,
                 !.stats.nextReconnectAt = delay]

\* ws?.close(): a socket that is connecting or open starts closing
closeSocket(w) ==
    IF w.ws # 0 /\ w.socks[w.ws] \in {"CONNECTING", "OPEN"}
    THEN [w EXCEPT !.socks[w.ws] = "CLOSING"]
    ELSE w

\* connect that sets CONNECTING whatever the status was
connect_alwaysConnecting(w, reconnect, since) ==
    LET w1 == [w EXCEPT !.reconnectTimeout = NoTimer,
                        !.connectTimeout = IF reconnect THEN "rc" ELSE "norc"]
        w2 == attempt(w1)
        w3 == [w2 EXCEPT !.status = "CONNECTING"]
    IN  IF w.factoryThrows
        THEN LET w4 == [w3 EXCEPT !.status = "DISCONNECTED"]
                 w5 == IF reconnect
                       THEN handleReconnection(w4, 0, since)
                       ELSE emit(w4, <<"delayed-connect", NoReconnectDelay>>)
             IN  [w5 EXCEPT !.out.thrown = "connect"]
        ELSE [w3 EXCEPT !.socks = Append(@, "CONNECTING"), !.ws = Len(w3.socks) + 1]

\* connect(timeoutMs, reconnect).  out.thrown = "connect" when the returned
\* promise is rejected.  The value of timeoutMs only sets how long the
\* connect-timeout runs, which an untimed model does not track.
connect(w, reconnect, since) ==
    LET w1 == [w EXCEPT !.reconnectTimeout = NoTimer,
                        !.connectTimeout = IF reconnect THEN "rc" ELSE "norc"]
        w2 == attempt(w1)
        w3 == [w2 EXCEPT !.status = IF w2.status = "DISCONNECTED"
                                    THEN "CONNECTING" ELSE "RECONNECTING"]
    IN  IF w.factoryThrows
        THEN LET w4 == [w3 EXCEPT !.status = "DISCONNECTED"]
                 w5 == IF reconnect
                       THEN handleReconnection(w4, 0, since)
                       ELSE emit(w4, <<"delayed-connect", NoReconnectDelay>>)
             IN  [w5 EXCEPT !.out.thrown = "connect"]
        ELSE [w3 EXCEPT !.socks = Append(@, "CONNECTING"), !.ws = Len(w3.socks) + 1]

disconnect(w) == closeSocket([w EXCEPT !.status = "DISCONNECTING"])

onConnectionError(w, reconnect, since) ==
    IF reconnect THEN handleReconnection(w, 0, since) ELSE w

onConnect(w) ==
    LET w1 == [w EXCEPT !.reconnectTimeout = NoTimer, !.connectTimeout = "none"]
        w2 == connected(w1)
        w3 == [w2 EXCEPT !.status = "CONNECTED"]
    IN  emit(emit(w3, <<"connect">>), <<"ready">>)

onDisconnect(w, elapsed) ==
    LET w1 == disconnected(w, elapsed)
        w2 == IF w1.status = "CONNECTED"
              THEN handleReconnection([w1 EXCEPT !.status = "DISCONNECTED"], 0, elapsed)
              ELSE w1
    IN  emit(w2, <<"disconnect">>)

\* (1000 * (attempt + 1)) ^ 4 is a bitwise xor in the source language
Xor4(n) == IF (n \div ChainDelayXor) % 2 = 0 THEN n + ChainDelayXor ELSE n - ChainDelayXor
chainDelay(att) == Xor4(ChainDelayUnit * (att + 1))

\* the callback of the reconnect timer (lines 396-418), with the .catch of
\* the promise connect() returns: a microtask of the same turn
reconnectTimerCallback(w, since) ==
    LET att == w.reconnectTimeout
        w1 == [w EXCEPT !.reconnectTimeout = NoTimer, !.status = "RECONNECTING"]
        w2 == connect(w1, TRUE, since)
    IN  IF w2.out.thrown = "connect"
        THEN LET w3 == [w2 EXCEPT !.out.thrown = "none"]
             IN  IF att < MAX_RECONNECT_ATTEMPTS
                 THEN [schedule(w3, "handleReconnection", chainDelay(att)) EXCEPT
                          !.chainTimers[att + 1] = @ + 1]
                 ELSE w3
        ELSE w2

\* send without the readyState test
send_ignoresReadyState(w, message) ==
    IF w.status = "CONNECTED"
    THEN [w EXCEPT !.out.wrote = Append(@, message)]
    ELSE [w EXCEPT !.out.thrown = "NotConnected"]

send(w, message) ==
    IF w.status = "CONNECTED" /\ w.ws # 0 /\ w.socks[w.ws] = "OPEN"
    THEN [w EXCEPT !.out.wrote = Append(@, message)]
    ELSE [w EXCEPT !.out.thrown = "NotConnected"]

\* a call of the async send() whose promise is dropped: its rejection
\* reaches nobody
sendDetached(w, message) ==
    LET w1 == send(w, message)
    IN  IF w1.out.thrown = "NotConnected"
        THEN [w1 EXCEPT !.out.thrown = "none", !.out.unhandled = @ \cup {"NotConnected"}]
        ELSE w1

Put(m, k, v) == [i \in DOMAIN m \cup {k} |-> IF i = k THEN v ELSE m[i]]
Delete(m, k) == [i \in DOMAIN m \ {k} |-> m[i]]
EmptyMap == [i \in {} |-> 0]

\* a promise is pending, resolved or rejected; the value it settles with is
\* shown in out.settled by the step that settles it.  `key` is the id its
\* resolver was registered under.
Promise(id) == [state |-> "pending", key |-> id]
Resolved(v) == <<"resolved", v>>
Rejected(e) == <<"rejected", e>>

\* publish(event) and auth(event): the promise is futs[Len(futs)] afterwards
publish(w, id) ==
    LET w1 == [w EXCEPT !.futs = Append(@, Promise(id)),
                        !.openEventPublishes = Put(@, id, Len(w.futs) + 1)]
    IN  sendDetached(w1, <<"EVENT", id>>)

auth(w, id) ==
    LET w1 == [w EXCEPT !.futs = Append(@, Promise(id)),
                        !.openEventPublishes = Put(@, id, Len(w.futs) + 1)]
    IN  sendDetached(w1, <<"AUTH", id>>)

\* count(filters, params): given = "" when params.id is absent (or falsy)
count(w, given) ==
    LET n == w.serial + 1
        id == IF given # "" THEN given ELSE DefaultCountId(n)
        w1 == [w EXCEPT !.serial = n,
                        !.futs = Append(@, Promise(id)),
                        !.openCountRequests = Put(@, id, Len(w.futs) + 1)]
    IN  sendDetached(w1, <<"COUNT", id>>)

prepareSubscription(w, filters, given) ==
    LET n == w.serial + 1
        id == IF given # "" THEN given ELSE DefaultSubId(n)
    IN  [w EXCEPT !.serial = n,
                  !.subs = Append(@, [id |-> id, filters |-> filters, closed |-> FALSE]),
                  !.openSubs = Put(@, id, Len(w.subs) + 1)]

callback(w, h, name, arg) == [w EXCEPT !.out.cbs = @ \cup {<<h, name, arg>>}]

\* matchFilters of nostr-tools: the event matches when some filter of the
\* list matches it; a filter is reduced to its `kinds`
matchFilters(filters, kind) == \E i \in 1..Len(filters) : kind \in filters[i]

\* NDKRelaySubscription.close(reason): marks the handle closed, calls its
\* close callback and removes its entry from the registry
close(w, h, reason) ==
    LET w1 == [w EXCEPT !.subs[h].closed = TRUE]
        id == w.subs[h].id
        w2 == IF id \in DOMAIN w1.openSubs /\ w1.openSubs[id] = h
              THEN [w1 EXCEPT !.openSubs = Delete(@, id)]
              ELSE w1
    IN  callback(w2, h, "onclose", reason)

\* resolve / reject of a promise: only a pending promise changes
settle(w, f, result) ==
    IF w.futs[f].state = "pending"
    THEN [w EXCEPT !.futs[f].state = result[1], !.out.settled = @ \cup {<<f, result[1], result[2]>>}]
    ELSE w

\* the continuation of an onAuthRequested suspended on `await this.auth(..)`
\* (lines 269/284 -> 288-289), run when that promise settles
resumeAuth(w, f) ==
    LET waiting == {i \in 1..Len(w.authFlows) :
                       w.authFlows[i].pc = "await" /\ w.authFlows[i].fut = f}
        rest == SelectSeq(w.authFlows, LAMBDA a : ~(a.pc = "await" /\ a.fut = f))
        w1 == [w EXCEPT !.authFlows = rest]
    IN  IF waiting = {} THEN w
        ELSE IF w.futs[f].state = "resolved"
        THEN emit([w1 EXCEPT !.status = "CONNECTED"], <<"authed">>)
        ELSE [w1 EXCEPT !.out.unhandled = @ \cup {"AuthRejected"}]

includes(text, needle) == \E i \in 1..Len(text) : text[i] = needle

\* onNotice without the timer of line 360
onNotice_noReconnect(w, notice) ==
    LET w1 == IF includes(notice, "oo many") \/ includes(notice, "aximum")
              THEN disconnect(w)
              ELSE w
    IN  emit(w1, <<"notice", notice>>)

onNotice(w, notice) ==
    LET w1 == IF includes(notice, "oo many") \/ includes(notice, "aximum")
              THEN [schedule(disconnect(w), "connect", NoticeDelay) EXCEPT
                       !.noticeTimers = @ + 1]
              ELSE w
    IN  emit(w1, <<"notice", notice>>)

\* onAuthRequested up to its first await; havePolicy is !!authPolicy
onAuthRequested(w, challenge, havePolicy) ==
    IF havePolicy
    THEN IF w.status # "AUTHENTICATING"
         THEN [w EXCEPT !.status = "AUTHENTICATING",
                        !.authFlows = Append(@, [pc |-> "policy", fut |-> 0])]
         ELSE w
    ELSE emit(w, <<"auth", challenge>>)

\* onAuthRequested from the return of the policy (line 265) to its next await
authPolicyReturned(w, i, res, haveSigner) ==
    LET others == [j \in 1..(Len(w.authFlows) - 1) |->
                      IF j < i THEN w.authFlows[j] ELSE w.authFlows[j + 1]]
        gone == [w EXCEPT !.authFlows = others]
    IN  CASE res = "event" ->
               [auth(w, AuthEventId) EXCEPT
                   !.authFlows[i] = [pc |-> "await", fut |-> Len(w.futs) + 1]]
          [] res = "true" ->
               IF ~haveSigner
               THEN [gone EXCEPT !.out.unhandled = @ \cup {"NoSigner"}]
               ELSE IF w.status = "AUTHENTICATING"
               THEN [w EXCEPT !.authFlows[i] = [pc |-> "sign", fut |-> 0]]
               ELSE emit([gone EXCEPT !.status = "CONNECTED"], <<"authed">>)
          [] OTHER -> gone

\* onAuthRequested from the return of event.sign() (line 283) to line 284
authSigned(w, i) ==
    [auth(w, AuthEventId) EXCEPT
        !.authFlows[i] = [pc |-> "await", fut |-> Len(w.futs) + 1]]

\* onMessage, one operator per verb.  A TypeError raised by a missing
\* registry entry is caught at line 240 and changes nothing.

\* the EVENT case without the test of line 191
onEVENT_unfiltered(w, id, kind) ==
    IF id \in DOMAIN w.openSubs
    THEN callback(w, w.openSubs[id], "onevent", "")
    ELSE w

onEVENT(w, id, kind) ==
    IF id \in DOMAIN w.openSubs
    THEN LET h == w.openSubs[id]
         IN  IF matchFilters(w.subs[h].filters, kind)
             THEN callback(w, h, "onevent", "")
             ELSE w
    ELSE w

onCOUNT(w, id, n) ==
    IF id \in DOMAIN w.openCountRequests
    THEN [settle(w, w.openCountRequests[id], Resolved(n)) EXCEPT
             !.openCountRequests = Delete(@, id)]
    ELSE w

onEOSE(w, id) ==
    IF id \in DOMAIN w.openSubs
    THEN callback(w, w.openSubs[id], "oneose", "")
    ELSE w

\* the OK case without line 219
onOK_keepsEntry(w, id, ok, reason) ==
    IF id \in DOMAIN w.openEventPublishes
    THEN LET f == w.openEventPublishes[id]
             w1 == settle(w, f, IF ok THEN Resolved(reason) ELSE Rejected(reason))
         IN  resumeAuth(w1, f)
    ELSE w

onOK(w, id, ok, reason) ==
    IF id \in DOMAIN w.openEventPublishes
    THEN LET f == w.openEventPublishes[id]
             w1 == settle(w, f, IF ok THEN Resolved(reason) ELSE Rejected(reason))
             w2 == resumeAuth(w1, f)
         IN  [w2 EXCEPT !.openEventPublishes = Delete(@, id)]
    ELSE w

\* the CLOSED case without line 227
onCLOSED_flagOnly(w, id, reason) ==
    IF id \in DOMAIN w.openSubs
    THEN [w EXCEPT !.subs[w.openSubs[id]].closed = TRUE]
    ELSE w

onCLOSED(w, id, reason) ==
    IF id \in DOMAIN w.openSubs
    THEN close(w, w.openSubs[id], reason)
    ELSE w

\* A frame as JSON.parse sees it: text that is not JSON, or a JSON value
\* (null, a number, an array, an object) with the values found at its
\* indices 0, 1, 2, ..  (for an object: at its keys "0", "1", "2", ..).
Frame(json, items) == [json |-> json, items |-> items]

Verbs == {"EVENT", "COUNT", "EOSE", "OK", "CLOSED", "NOTICE", "AUTH"}

\* frames that are not an array whose first item is a known verb
BadFrames ==
    {Frame("invalid", <<>>), Frame("null", <<>>), Frame("number", <<>>),
     Frame("array", <<>>), Frame("array", <<"FOO", "x">>), Frame("object", <<>>)}
    \cup {Frame("object", <<"NOTICE", notice>>) : notice \in Notices}

\* data[i - 1] of a parsed value that is not null
Item(data, i) ==
    IF data.json \in {"array", "object"} /\ i <= Len(data.items)
    THEN data.items[i]
    ELSE "undefined"

\* onMessage, lines 181-244: JSON.parse throws on text that is not JSON and
\* data[0] throws on null, both inside the try; any other value is indexed
\* and the switch runs on what index 0 holds
onMessage(w, data, havePolicy) ==
    IF data.json \in {"invalid", "null"} THEN w
    ELSE LET verb == Item(data, 1)
         IN  CASE verb = "EVENT" -> onEVENT(w, Item(data, 2), Item(data, 3))
               [] verb = "COUNT" -> onCOUNT(w, Item(data, 2), Item(data, 3))
               [] verb = "EOSE" -> onEOSE(w, Item(data, 2))
               [] verb = "OK" -> onOK(w, Item(data, 2), Item(data, 3), Item(data, 4))
               [] verb = "CLOSED" -> onCLOSED(w, Item(data, 2), Item(data, 3))
               [] verb = "NOTICE" -> onNotice(w, Item(data, 2))
               [] verb = "AUTH" -> onAuthRequested(w, Item(data, 2), havePolicy)
               [] OTHER -> w

\* ------------------------------------------------------------------ Init
\* The state after the constructor.  Whether the WebSocket constructor
\* throws depends on the relay url, which is fixed for the connection.
InitRest ==
    /\ status = "DISCONNECTED"
    /\ ws = 0
    /\ socks = <<>>
    /\ factoryThrows \in BOOLEAN
    /\ connectTimeout = "none"
    /\ reconnectTimeout = NoTimer
    /\ chainTimers = [a \in 1..MAX_RECONNECT_ATTEMPTS |-> 0]
    /\ noticeTimers = 0
    /\ connectedAt = 0
    /\ openSubs = EmptyMap
    /\ openCountRequests = EmptyMap
    /\ openEventPublishes = EmptyMap
    /\ serial = 0
    /\ subs = <<>>
    /\ futs = <<>>
    /\ authFlows = <<>>
    /\ lastOp = <<"new">>
    /\ out = NoOut
    /\ constructed = FALSE
    /\ nip05 = <<>>
    /\ remotePubkey = ""
    /\ token = ""
    /\ readyCalls = <<>>
    /\ lookups = 0
    /\ rpcCalls = <<>>

Init ==
    /\ InitRest
    /\ stats = [attempts |-> 0, success |-> 0, durations |-> <<>>,
                connectedAt |-> FALSE, nextReconnectAt |-> 0]

\* --------------------------------------------------------------- actions
\* Date.now() - this.connectedAt as line 393 would see it
Since == IF connectedAt = 0 THEN {NaN} ELSE Elapsed

\* the host calls connect(timeoutMs, reconnect)
Connect ==
    /\ stats.attempts < MaxAttempts
    /\ \E reconnect \in BOOLEAN, since \in Since :
           Commit(connect(Begin(World), reconnect, since), <<"connect">>)

\* the host calls disconnect()
Disconnect ==
    Commit(disconnect(Begin(World)), <<"disconnect">>)

\* ws.onopen of socket s
SocketOpen ==
    \E s \in 1..Len(socks) :
        /\ socks[s] = "CONNECTING"
        /\ Commit(onConnect([Begin(World) EXCEPT !.socks[s] = "OPEN"]), <<"open">>)

\* ws.onclose of socket s: closed by the relay, by the network, or at the
\* end of the closing handshake
SocketClose ==
    \E s \in 1..Len(socks), elapsed \in Elapsed :
        /\ socks[s] # "CLOSED"
        /\ Commit(onDisconnect([Begin(World) EXCEPT !.socks[s] = "CLOSED"], elapsed),
                  <<"close">>)

\* the connect-timeout of line 79 expires
ConnectTimeoutExpires ==
    /\ connectTimeout # "none"
    /\ \E since \in Since :
           Commit(onConnectionError([Begin(World) EXCEPT !.connectTimeout = "none"],
                                    connectTimeout = "rc", since),
                  <<"connect-timeout">>)

\* the reconnect timer of line 396 expires, while fewer than `limit`
\* connects were made
ReconnectTimerFires(limit) ==
    /\ reconnectTimeout # NoTimer
    /\ stats.attempts < limit
    /\ factoryThrows /\ reconnectTimeout < MAX_RECONNECT_ATTEMPTS
           => chainTimers[reconnectTimeout + 1] < MaxChainTimers
    /\ \E since \in Since :
           Commit(reconnectTimerCallback(Begin(World), since), <<"reconnect-timer">>)

ReconnectTimerExpires == ReconnectTimerFires(MaxAttempts)

\* a timer of line 408 expires
ChainTimerExpires ==
    \E att \in 1..MAX_RECONNECT_ATTEMPTS, since \in Since :
        /\ chainTimers[att] > 0
        /\ Commit(handleReconnection([Begin(World) EXCEPT !.chainTimers[att] = @ - 1],
                                     att, since),
                  <<"chain-timer">>)

\* the timer of line 360 expires; nobody handles the promise of connect()
NoticeTimerExpires ==
    /\ noticeTimers > 0
    /\ stats.attempts < MaxAttempts
    /\ \E since \in Since :
           LET w == connect([Begin(World) EXCEPT !.noticeTimers = @ - 1], TRUE, since)
           IN  Commit(IF w.out.thrown = "connect"
                      THEN [w EXCEPT !.out.thrown = "none",
                                     !.out.unhandled = @ \cup {"connect"}]
                      ELSE w,
                      <<"notice-timer">>)

\* the host calls send(message)
Send ==
    \E id \in GivenIds :
        Commit(send(Begin(World), <<"REQ", id>>), <<"send", id>>)

Publish ==
    /\ Len(futs) < MaxFutures
    /\ \E id \in EventIds :
           Commit(publish(Begin(World), id), <<"publish", id>>)

Count ==
    /\ Len(futs) < MaxFutures
    /\ serial < MaxSerial
    /\ \E given \in GivenIds \cup {""} :
           Commit(count(Begin(World), given), <<"count", given>>)

PrepareSubscription ==
    /\ serial < MaxSerial
    /\ \E given \in GivenIds \cup {""}, filters \in FilterSets :
           Commit(prepareSubscription(Begin(World), filters, given),
                  <<"prepareSubscription", given>>)

\* the owner of handle h closes it
CloseSubscription ==
    \E h \in 1..Len(subs) :
        /\ ~subs[h].closed
        /\ Commit(close(Begin(World), h, ""), <<"close-subscription", h>>)

\* ws.onmessage, per verb; only an open socket delivers messages, and the
\* handler does not look at which socket delivered
Receiving == \E s \in 1..Len(socks) : socks[s] = "OPEN"

MessageEVENT(ids) ==
    /\ Receiving
    /\ \E id \in ids, kind \in Kinds :
           Commit(onEVENT(Begin(World), id, kind), <<"EVENT", id, kind>>)

MessageCOUNT(ids) ==
    /\ Receiving
    /\ \E id \in ids, n \in Counts :
           Commit(onCOUNT(Begin(World), id, n), <<"COUNT", id, n>>)

MessageEOSE(ids) ==
    /\ Receiving
    /\ \E id \in ids :
           Commit(onEOSE(Begin(World), id), <<"EOSE", id>>)

MessageOK(ids, reasons) ==
    /\ Receiving
    /\ \E id \in ids, ok \in BOOLEAN, reason \in reasons :
           Commit(onOK(Begin(World), id, ok, reason), <<"OK", id, ok, reason>>)

MessageCLOSED(ids) ==
    /\ Receiving
    /\ \E id \in ids, reason \in Reasons :
           Commit(onCLOSED(Begin(World), id, reason), <<"CLOSED", id, reason>>)

MessageNOTICE ==
    /\ Receiving
    /\ \E notice \in Notices :
           /\ includes(notice, "oo many") \/ includes(notice, "aximum")
                  => noticeTimers < MaxNoticeTimers
           /\ Commit(onNotice(Begin(World), notice), <<"NOTICE", notice>>)

\* a frame that is not a well-formed relay message arrives
MessageBadFrame ==
    /\ Receiving
    /\ \E data \in BadFrames, havePolicy \in BOOLEAN :
           /\ Item(data, 1) = "NOTICE" => noticeTimers < MaxNoticeTimers
           /\ Commit(onMessage(Begin(World), data, havePolicy), <<"frame", data>>)

MessageAUTH ==
    /\ Receiving
    /\ \E challenge \in Challenges, havePolicy \in BOOLEAN :
           /\ havePolicy /\ status # "AUTHENTICATING" => Len(authFlows) < MaxAuthFlows
           /\ Commit(onAuthRequested(Begin(World), challenge, havePolicy),
                     <<"AUTH">>)

\* the promise of the auth policy resolves
AuthPolicyReturns ==
    \E i \in 1..Len(authFlows), res \in {"true", "event", "falsy"}, haveSigner \in BOOLEAN :
        /\ authFlows[i].pc = "policy"
        /\ res = "event" => Len(futs) < MaxFutures
        /\ Commit(authPolicyReturned(Begin(World), i, res, haveSigner),
                  <<"auth-policy", res, haveSigner>>)

\* the promise of event.sign() resolves
AuthSigned ==
    \E i \in 1..Len(authFlows) :
        /\ authFlows[i].pc = "sign"
        /\ Len(futs) < MaxFutures
        /\ Commit(authSigned(Begin(World), i), <<"auth-signed">>)

\* ------------------------------------------------- remote signer session
\* NDKNip46Signer (src/ndk/src/signers/nip46/index.ts).  The strings a host
\* may construct it from, cut into pieces so that includes, startsWith,
\* split and match can be computed: "npub1r#otp", "npub1r", two nip05
\* identifiers and a hex pubkey.
TokenInputs ==
    {<<"npub", "1r", "#", "otp">>, <<"npub", "1r">>, <<"bob", ".", "example">>,
     <<"nobody", ".", "example">>, <<"pk">>}

\* new NDKUser({ npub }).pubkey: the bech32 decoding of the npub
NpubToPubkey(npub) == IF npub = <<"npub", "1r">> THEN "pk" ELSE ""

\* what NDKUser.fromNip05 finds for an identifier: a user's pubkey, or
\* nothing
Nip05Directory(identifier) ==
    IF identifier = <<"bob", ".", "example">> THEN "pk" ELSE ""

\* the pubkey of the local signer's user
LocalPubkey == "local"

\* the connection's variables, which the signer session does not touch
connectionVars ==
    <<status, ws, socks, factoryThrows, connectTimeout, reconnectTimeout,
      chainTimers, noticeTimers, connectedAt, stats, openSubs,
      openCountRequests, openEventPublishes, serial, subs, futs, authFlows>>

\* a step of the signer session: it shows `shown` to the outside
SignerStep(op, shown) ==
    /\ lastOp' = op
    /\ out' = shown
    /\ UNCHANGED connectionVars

\* tokenOrRemoteUser.split("#"): the text before the first "#", and the
\* piece after it
BeforeHash(text) ==
    LET i == CHOOSE k \in 1..Len(text) :
                 text[k] = "#" /\ \A j \in 1..(k - 1) : text[j] # "#"
    IN  SubSeq(text, 1, i - 1)

AfterHash(text) ==
    LET i == CHOOSE k \in 1..Len(text) :
                 text[k] = "#" /\ \A j \in 1..(k - 1) : text[j] # "#"
    IN  IF i < Len(text) THEN text[i + 1] ELSE ""

\* the constructor, lines 61-95
NewSigner ==
    /\ ~constructed
    /\ \E tokenOrRemoteUser \in TokenInputs :
           /\ constructed' = TRUE
           /\ IF includes(tokenOrRemoteUser, "#")
              THEN /\ remotePubkey' = NpubToPubkey(BeforeHash(tokenOrRemoteUser))
                   /\ token' = AfterHash(tokenOrRemoteUser)
                   /\ nip05' = <<>>
              ELSE IF tokenOrRemoteUser[1] = "npub"
              THEN /\ remotePubkey' = NpubToPubkey(tokenOrRemoteUser)
                   /\ token' = ""
                   /\ nip05' = <<>>
              ELSE IF includes(tokenOrRemoteUser, ".")
              THEN /\ remotePubkey' = ""
                   /\ token' = ""
                   /\ nip05' = tokenOrRemoteUser
              ELSE /\ remotePubkey' = tokenOrRemoteUser[1]
                   /\ token' = ""
                   /\ nip05' = <<>>
    /\ UNCHANGED <<readyCalls, lookups, rpcCalls>>
    /\ SignerStep(<<"new-signer">>, NoOut)

\* a call on this.rpc
RpcSubscribe == [call |-> "subscribe", method |-> "", params |-> <<RpcKind, LocalPubkey>>]
RpcRequest(method, params) == [call |-> "sendRequest", method |-> method, params |-> params]

\* blockUntilReady() is called: it runs to `await this.localSigner.user()`
BlockUntilReady ==
    /\ constructed
    /\ Len(readyCalls) < MaxReadyCalls
    /\ readyCalls' = Append(readyCalls, [pc |-> "user", error |-> ""])
    /\ UNCHANGED <<constructed, nip05, remotePubkey, token, lookups, rpcCalls>>
    /\ SignerStep(<<"blockUntilReady", Len(readyCalls) + 1>>, NoOut)

\* lines 106-126: from the local user to `await this.rpc.subscribe(..)`
LocalUserResolves ==
    \E i \in 1..Len(readyCalls) :
        /\ readyCalls[i].pc = "user"
        /\ lookups' = IF nip05 # <<>> /\ remotePubkey = "" THEN lookups + 1 ELSE lookups
        /\ IF remotePubkey = ""
           THEN /\ readyCalls' = [readyCalls EXCEPT ![i] =
                       [pc |-> "rejected", error |-> "Remote pubkey not set"]]
                /\ UNCHANGED rpcCalls
           ELSE /\ readyCalls' = [readyCalls EXCEPT ![i].pc = "subscribe"]
                /\ rpcCalls' = Append(rpcCalls, RpcSubscribe)
        /\ UNCHANGED <<constructed, nip05, remotePubkey, token>>
        /\ SignerStep(<<"local-user", i>>, NoOut)

\* the promise of NDKUser.fromNip05 resolves: the callback of lines 109-114
LookupResolves ==
    /\ lookups > 0
    /\ lookups' = lookups - 1
    /\ remotePubkey' = IF Nip05Directory(nip05) # ""
                       THEN Nip05Directory(nip05) ELSE remotePubkey
    /\ UNCHANGED <<constructed, nip05, token, readyCalls, rpcCalls>>
    /\ SignerStep(<<"lookup">>, NoOut)

\* the promise of rpc.subscribe resolves: lines 128-152 start the timer
SubscribeResolves ==
    \E i \in 1..Len(readyCalls) :
        /\ readyCalls[i].pc = "subscribe"
        /\ readyCalls' = [readyCalls EXCEPT ![i].pc = "timer"]
        /\ UNCHANGED <<constructed, nip05, remotePubkey, token, lookups, rpcCalls>>
        /\ SignerStep(<<"subscribed", i>>,
                      [NoOut EXCEPT !.scheduled = {<<"sendRequest", HandshakeDelay>>}])

\* the timer of line 132 expires: the connect request of lines 133-151
HandshakeTimerExpires ==
    \E i \in 1..Len(readyCalls) :
        /\ readyCalls[i].pc = "timer"
        /\ readyCalls' = [readyCalls EXCEPT ![i].pc = "connect"]
        /\ rpcCalls' = Append(rpcCalls,
               RpcRequest("connect",
                          IF token # "" THEN <<LocalPubkey, token>> ELSE <<LocalPubkey>>))
        /\ UNCHANGED <<constructed, nip05, remotePubkey, token, lookups>>
        /\ SignerStep(<<"handshake-timer", i>>, NoOut)

\* the response to the connect request: lines 144-150
ConnectResponse ==
    \E i \in 1..Len(readyCalls), result \in {"ack", "refused"} :
        /\ readyCalls[i].pc = "connect"
        /\ readyCalls' = [readyCalls EXCEPT ![i] =
               IF result = "ack"
               THEN [pc |-> "resolved", error |-> ""]
               ELSE [pc |-> "rejected", error |-> "response.error"]]
        /\ UNCHANGED <<constructed, nip05, remotePubkey, token, lookups, rpcCalls>>
        /\ SignerStep(<<"connect-response", i, result>>, NoOut)

\* the requests the host has made through sign, encrypt and decrypt
HostRequests == SelectSeq(rpcCalls, LAMBDA c : c.call = "sendRequest" /\ c.method # "connect")

\* encrypt / decrypt / sign call rpc.sendRequest at once
sendRequest(method, params) ==
    /\ constructed
    /\ Len(HostRequests) < MaxRequests
    /\ rpcCalls' = Append(rpcCalls, RpcRequest(method, params))
    /\ UNCHANGED <<constructed, nip05, remotePubkey, token, readyCalls, lookups>>
    /\ SignerStep(<<method>>, NoOut)

Encrypt == sendRequest("nip04_encrypt", <<"recipient", "value">>)

Decrypt == sendRequest("nip04_decrypt", <<"sender", "value">>)

Sign == sendRequest("sign_event", <<"event">>)

\* ----------------------------------------------------- the flap detector
\* isFlapping() is asked about the log as it stands
IsFlapping ==
    /\ lastOp[1] # "isFlapping"
    /\ lastOp' = <<"isFlapping", isFlapping(stats.durations)>>
    /\ out' = NoOut
    /\ UNCHANGED <<connectionVars, signerVars>>

\* ------------------------------------------------------- specifications
\* The whole machine.
Next ==
    \/ Connect
    \/ Disconnect
    \/ SocketOpen
    \/ SocketClose
    \/ ConnectTimeoutExpires
    \/ ReconnectTimerExpires
    \/ ChainTimerExpires
    \/ NoticeTimerExpires
    \/ Send
    \/ Publish
    \/ Count
    \/ PrepareSubscription
    \/ CloseSubscription
    \/ MessageEVENT(SubIds)
    \/ MessageCOUNT(CountIds)
    \/ MessageEOSE(SubIds)
    \/ MessageOK(PublishIds, Reasons)
    \/ MessageCLOSED(SubIds)
    \/ MessageNOTICE
    \/ MessageAUTH
    \/ AuthPolicyReturns
    \/ AuthSigned
    \/ NewSigner
    \/ BlockUntilReady
    \/ LocalUserResolves
    \/ LookupResolves
    \/ SubscribeResolves
    \/ HandshakeTimerExpires
    \/ ConnectResponse
    \/ Encrypt
    \/ Decrypt
    \/ Sign
    \/ IsFlapping
    \/ MessageBadFrame

Spec == Init /\ [][Next]_vars

\* The connection life cycle: connects, sockets, timers and notices.
NextLife ==
    \/ Connect
    \/ Disconnect
    \/ SocketOpen
    \/ SocketClose
    \/ ConnectTimeoutExpires
    \/ ReconnectTimerExpires
    \/ ChainTimerExpires
    \/ NoticeTimerExpires
    \/ MessageNOTICE

SpecLife == Init /\ [][NextLife]_vars

\* a connect() of the host, over a bounded number of connects
ConnectSession == stats.attempts < MaxSessions /\ Connect

\* send() of the host across the life of a socket and the auth challenges
\* of the relay.
NextAuth ==
    \/ ConnectSession
    \/ Disconnect
    \/ SocketOpen
    \/ SocketClose
    \/ ConnectTimeoutExpires
    \/ Send
    \/ MessageOK({AuthEventId}, {"r1"})
    \/ MessageAUTH
    \/ AuthPolicyReturns
    \/ AuthSigned

SpecAuth == Init /\ [][NextAuth]_vars

\* The same session when every promise the connection awaits settles: the
\* auth policy returns and event.sign() resolves.  Nothing obliges the host
\* to call, the relay to answer or the socket to close.
SpecAuthLive ==
    /\ Init
    /\ [][NextAuth]_vars
    /\ WF_vars(AuthPolicyReturns)
    /\ WF_vars(AuthSigned)

\* The three correlation registries together, with no timer expiring.
NextReg ==
    \/ ConnectSession
    \/ Disconnect
    \/ SocketOpen
    \/ SocketClose
    \/ Publish
    \/ Count
    \/ PrepareSubscription
    \/ CloseSubscription
    \/ MessageEVENT(SubIds)
    \/ MessageCOUNT(CountIds)
    \/ MessageEOSE(SubIds)
    \/ MessageOK(PublishIds, Reasons)
    \/ MessageCLOSED(SubIds)

SpecReg == Init /\ [][NextReg]_vars

\* Publishes and the OK frames that answer them, beside count requests
\* that share ids and promises with them.
NextPub ==
    \/ ConnectSession
    \/ Disconnect
    \/ SocketOpen
    \/ SocketClose
    \/ Publish
    \/ Count
    \/ MessageOK(PublishIds, Reasons)

SpecPub == Init /\ [][NextPub]_vars

\* Subscriptions and the frames addressed to them.
NextSub ==
    \/ ConnectSession
    \/ Disconnect
    \/ SocketOpen
    \/ SocketClose
    \/ PrepareSubscription
    \/ CloseSubscription
    \/ MessageEVENT(SubIds)
    \/ MessageEOSE(SubIds)
    \/ MessageCLOSED(SubIds)

SpecSub == Init /\ [][NextSub]_vars

\* A relay whose socket cannot be created: one connect() of the host, then
\* only timers.
FirstConnect == stats.attempts = 0 /\ Connect

NextFail ==
    \/ FirstConnect
    \/ Disconnect
    \/ ConnectTimeoutExpires
    \/ ReconnectTimerFires(MaxFailedAttempts)
    \/ ChainTimerExpires
    \/ Send

InitFail == Init /\ factoryThrows

SpecFail == InitFail /\ [][NextFail]_vars

\* isFlapping as a function of the log: any log of up to MaxLogLen session
\* durations.
LoggedDurations == {0, 500, 2000, 3000}

RECURSIVE DurationLogs(_)
DurationLogs(len) ==
    IF len = 0 THEN {<<>>}
    ELSE LET shorter == DurationLogs(len - 1)
         IN  shorter \cup {Append(log, d) : log \in shorter, d \in LoggedDurations}

InitFlap ==
    /\ InitRest
    /\ \E log \in DurationLogs(MaxLogLen) :
           stats = [attempts |-> 0, success |-> 0, durations |-> log,
                    connectedAt |-> FALSE, nextReconnectAt |-> 0]

SpecFlap == InitFlap /\ [][IsFlapping]_vars

\* Connects, sessions and reconnects only, over enough connects for the log
\* to hold three durations and a connect to follow.
CycleConnect ==
    /\ stats.attempts < MaxCycleAttempts
    /\ \E reconnect \in BOOLEAN, since \in Since :
           Commit(connect(Begin(World), reconnect, since), <<"connect">>)

NextCycle ==
    \/ CycleConnect
    \/ SocketOpen
    \/ SocketClose
    \/ ConnectTimeoutExpires
    \/ ReconnectTimerFires(MaxCycleAttempts)

SpecCycle == Init /\ [][NextCycle]_vars

\* One session with pending publishes, and frames that are not well-formed.
NextFrames ==
    \/ ConnectSession
    \/ Disconnect
    \/ SocketOpen
    \/ SocketClose
    \/ ConnectTimeoutExpires
    \/ Publish
    \/ MessageBadFrame

SpecFrames == Init /\ [][NextFrames]_vars

\* The remote signer session.
NextSigner ==
    \/ NewSigner
    \/ BlockUntilReady
    \/ LocalUserResolves
    \/ LookupResolves
    \/ SubscribeResolves
    \/ HandshakeTimerExpires
    \/ ConnectResponse
    \/ Encrypt
    \/ Decrypt
    \/ Sign

SpecSigner == Init /\ [][NextSigner]_vars

\* ------------------------------------------------------------ properties
\* every field of the connection and of its surroundings, without the
\* record of the last step
state ==
    <<status, ws, socks, factoryThrows, connectTimeout, reconnectTimeout,
      chainTimers, noticeTimers, connectedAt, stats, openSubs,
      openCountRequests, openEventPublishes, serial, subs, futs, authFlows>>

CanSend == status = "CONNECTED" /\ ws # 0 /\ socks[ws] = "OPEN"

Range(f) == {f[x] : x \in DOMAIN f}

\* C1: send(frame) writes the frame to the socket exactly when the status
\* is Connected and the socket is open; otherwise it fails with
\* NotConnected, writes nothing and leaves the connection as it was (nothing
\* is kept for later); and no step writes a frame while the connection
\* cannot send.
C1_SendContract ==
    [][/\ lastOp'[1] = "send" =>
            IF CanSend
            THEN /\ out'.wrote = << <<"REQ", lastOp'[2]>> >>
                 /\ out'.thrown = "none"
            ELSE /\ out'.wrote = <<>>
                 /\ out'.thrown = "NotConnected"
                 /\ state' = state
       /\ out'.wrote # <<>> =>
            /\ CanSend
            /\ lastOp'[1] \in {"send", "publish", "count", "auth-policy", "auth-signed"}
      ]_vars

\* send() was refused although the socket is open: the status is not Connected
C1_Witness ==
    /\ lastOp[1] = "send"
    /\ out.thrown = "NotConnected"
    /\ ws # 0
    /\ socks[ws] = "OPEN"

\* C2: after a socket-close no resolver registered for a publish or a count
\* is still pending: each was rejected.
C2_TeardownRejectsPending ==
    lastOp[1] = "close" =>
        \A f \in Range(openEventPublishes) \cup Range(openCountRequests) :
            futs[f].state # "pending"

\* C3: when publish or count is called while the connection cannot send,
\* the promise it returns is rejected.
C3_NotConnectedSurfaced ==
    /\ lastOp[1] \in {"publish", "count"}
    /\ "NotConnected" \in out.unhandled \cup {out.thrown}
    => futs[Len(futs)].state = "rejected"

\* C4: no correlation id is in more than one of the three registries.
C4_RegistriesDisjoint ==
    /\ DOMAIN openSubs \cap DOMAIN openCountRequests = {}
    /\ DOMAIN openSubs \cap DOMAIN openEventPublishes = {}
    /\ DOMAIN openCountRequests \cap DOMAIN openEventPublishes = {}

\* C5: an OK frame for an id with a pending publish settles that promise,
\* resolving it with the frame's reason when the frame says true and
\* rejecting it with that reason otherwise, settles no other promise and
\* removes the entry; an OK frame for an id without an entry (so any later
\* OK for the same id) settles nothing and leaves the connection as it was;
\* a settled promise never changes again.
C5_OkSettlesOnce ==
    [][/\ lastOp'[1] = "OK" =>
            LET id == lastOp'[2]
                ok == lastOp'[3]
                reason == lastOp'[4]
            IN  IF id \in DOMAIN openEventPublishes
                THEN LET f == openEventPublishes[id]
                     IN  /\ futs[f].state = "pending"
                         /\ futs'[f].state = IF ok THEN "resolved" ELSE "rejected"
                         /\ out'.settled = {<<f, futs'[f].state, reason>>}
                         /\ \A g \in 1..Len(futs) : g # f => futs'[g] = futs[g]
                         /\ id \notin DOMAIN openEventPublishes'
                ELSE /\ out'.settled = {}
                     /\ state' = state
       /\ \A f \in 1..Len(futs) : futs[f].state # "pending" => futs'[f] = futs[f]
      ]_vars

\* a second OK for event "e" arrives after the first one resolved its publish
C5_Witness ==
    /\ lastOp[1] = "OK"
    /\ lastOp[2] = "e"
    /\ out.settled = {}
    /\ "e" \notin DOMAIN openEventPublishes
    /\ \E f \in 1..Len(futs) : futs[f].key = "e" /\ futs[f].state = "resolved"

\* C6: a closed handle has no entry in the open-subscriptions registry, and
\* no step invokes a callback of a handle that was closed before the step.
C6_ClosedHandleIsSilent ==
    /\ [](\A h \in 1..Len(subs) :
            subs[h].closed =>
                ~(subs[h].id \in DOMAIN openSubs /\ openSubs[subs[h].id] = h))
    /\ [][\A c \in out'.cbs : ~subs[c[1]].closed]_vars

\* a matching EVENT frame arrives for the id of a closed handle and no
\* callback runs
C6_Witness ==
    /\ lastOp[1] = "EVENT"
    /\ lastOp[3] = 1
    /\ out.cbs = {}
    /\ \E h \in 1..Len(subs) : subs[h].closed /\ subs[h].id = lastOp[2]

\* C7: disconnect() sets the status Disconnecting, and the socket-close that
\* follows sets it Disconnected.
C7_DisconnectEndsDisconnected ==
    [][/\ lastOp'[1] = "disconnect" => status' = "DISCONNECTING"
       /\ status = "DISCONNECTING" /\ lastOp'[1] = "close" => status' = "DISCONNECTED"
      ]_vars

\* the host has called disconnect() and has not called connect() since: the
\* status is Disconnecting (only disconnect() sets it, every connect() leaves
\* it) and the disconnect did not come from a notice (whose timer is pending)
HostDisconnected == status = "DISCONNECTING" /\ noticeTimers = 0

\* C8: after the host's disconnect() and until its next connect(), no
\* reconnect timer is scheduled and no connect attempt is made.
C8_NoReconnectAfterDisconnect ==
    [][HostDisconnected /\ lastOp'[1] # "connect" =>
            /\ stats'.attempts = stats.attempts
            /\ reconnectTimeout' # NoTimer => reconnectTimeout' = reconnectTimeout
      ]_vars

\* C9: the durations log never holds more than 100 entries, and the close
\* of a socket that had opened appends exactly one entry (the oldest is
\* dropped when the log is full) and clears connectedAt.
C9_OneDurationPerSession ==
    /\ [](Len(stats.durations) <= MaxDurations)
    /\ [][\A s \in 1..Len(socks) :
            socks[s] = "OPEN" /\ socks'[s] = "CLOSED" =>
                /\ Len(stats'.durations) =
                       IF Len(stats.durations) = MaxDurations
                       THEN MaxDurations ELSE Len(stats.durations) + 1
                /\ ~stats'.connectedAt
         ]_vars

Occurrences(seq, x) == Cardinality({i \in 1..Len(seq) : seq[i] = x})

\* C10: a step in which the flap detector fires leaves the status Flapping,
\* emits flapping once and no delayed-connect, and leaves no reconnect timer
\* set; and while the status is Flapping no reconnect timer is pending.
C10_FlappingStopsReconnect ==
    /\ [][Occurrences(out'.emitted, <<"flapping">>) > 0 =>
            /\ status' = "FLAPPING"
            /\ Occurrences(out'.emitted, <<"flapping">>) = 1
            /\ \A i \in 1..Len(out'.emitted) : out'.emitted[i][1] # "delayed-connect"
            /\ reconnectTimeout' = NoTimer
         ]_vars
    /\ [](status = "FLAPPING" => reconnectTimeout = NoTimer)

\* three short sessions in a row: the third close finds the relay flapping
C10_Witness ==
    /\ status = "FLAPPING"
    /\ lastOp[1] = "close"
    /\ Occurrences(out.emitted, <<"flapping">>) = 1
    /\ Len(stats.durations) = 3

\* C11: when the socket can never be created, at most 5 reconnect attempts
\* follow the connect() of the host: attempts never exceeds 1 + 5.
C11_ReconnectLoopEnds ==
    factoryThrows => stats.attempts <= 1 + MAX_RECONNECT_ATTEMPTS

\* the reconnect path ran in the step: it set a timer and announced it, or
\* found the relay flapping, or found a reconnect already scheduled
ReconnectPathRan ==
    \/ reconnectTimeout # NoTimer /\ UNCHANGED reconnectTimeout /\ out'.emitted = <<>>
    \/ /\ reconnectTimeout = NoTimer
       /\ \/ reconnectTimeout' # NoTimer /\ out'.emitted[1][1] = "delayed-connect"
          \/ status' = "FLAPPING" /\ out'.emitted = << <<"flapping">> >>

\* C12: when the connect-timeout expires in status Connecting or
\* Reconnecting the status becomes Disconnected; the reconnect path runs when
\* the attempt was made with reconnection enabled, and nothing is scheduled
\* or emitted when it was not.
C12_TimeoutDisconnects ==
    [][lastOp'[1] = "connect-timeout" /\ status \in {"CONNECTING", "RECONNECTING"} =>
            /\ status' = "DISCONNECTED"
            /\ IF connectTimeout = "rc"
               THEN ReconnectPathRan
               ELSE UNCHANGED reconnectTimeout /\ out'.emitted = <<>>
      ]_vars

\* the socket of the connection is open
SocketIsOpen == ws # 0 /\ socks[ws] = "OPEN"

\* the step wrote the auth event to the socket and left a pending resolver
\* registered under its id
AuthEventSent ==
    /\ out'.wrote = << <<"AUTH", AuthEventId>> >>
    /\ AuthEventId \in DOMAIN openEventPublishes'
    /\ futs'[openEventPublishes'[AuthEventId]].state = "pending"

\* C13: with the challenge being handled (status Authenticating, socket
\* open), a policy that returns an event gets that event sent with a pending
\* resolver under its id; so does the event signed after the policy returned
\* true with a signer; a policy that returns true without a signer makes the
\* handling fail with NoSigner.
C13_AuthEventDispatched ==
    [][status = "AUTHENTICATING" /\ SocketIsOpen =>
            /\ lastOp'[1] = "auth-policy" /\ lastOp'[2] = "event" => AuthEventSent
            /\ lastOp'[1] = "auth-signed" => AuthEventSent
            /\ lastOp'[1] = "auth-policy" /\ lastOp'[2] = "true" /\ ~lastOp'[3] =>
                   "NoSigner" \in out'.unhandled
      ]_vars

\* the step is the arrival of a positive OK for the auth event
AuthEventAccepted ==
    /\ lastOp'[1] = "OK"
    /\ lastOp'[2] = AuthEventId
    /\ lastOp'[3]

\* C14: authed is emitted only by the step that receives a positive OK for
\* the auth event, and the status becomes Connected only by a socket opening
\* or by that step.
C14_AuthedOnlyOnOk ==
    [][/\ Occurrences(out'.emitted, <<"authed">>) > 0 => AuthEventAccepted
       /\ status # "CONNECTED" /\ status' = "CONNECTED" =>
              lastOp'[1] = "open" \/ AuthEventAccepted
      ]_vars

\* the notice asks for a recycle
Complaining(notice) == includes(notice, "oo many") \/ includes(notice, "aximum")

\* C15: every NOTICE emits one notice event with its text and nothing else;
\* a notice that contains "oo many" or "aximum" also sets the status
\* Disconnecting, starts closing the socket and starts one timer of 2000 ms
\* for connect(); any other notice changes nothing; and that timer, when it
\* expires, makes one connect attempt.
C15_NoticeRecycles ==
    [][/\ lastOp'[1] = "NOTICE" =>
            /\ out'.emitted = << <<"notice", lastOp'[2]>> >>
            /\ IF Complaining(lastOp'[2])
               THEN /\ status' = "DISCONNECTING"
                    /\ ws # 0 => socks'[ws] \in {"CLOSING", "CLOSED"}
                    /\ out'.scheduled = {<<"connect", NoticeDelay>>}
                    /\ noticeTimers' = noticeTimers + 1
               ELSE /\ state' = state
                    /\ out'.scheduled = {}
       /\ lastOp'[1] = "notice-timer" =>
            /\ noticeTimers' = noticeTimers - 1
            /\ stats'.attempts = stats.attempts + 1
      ]_vars

\* the timer of a recycle has expired and its connect() has created the
\* second socket, while the first is closing or closed
C15_Witness ==
    /\ lastOp[1] = "notice-timer"
    /\ Len(socks) = 2
    /\ socks[1] \in {"CLOSING", "CLOSED"}
    /\ socks[2] = "CONNECTING"

\* the callbacks an EVENT frame invokes when `matches` is the test applied
\* to the handle's filters
Delivered(matches) ==
    LET id == lastOp'[2]
    IN  IF id \in DOMAIN openSubs /\ matches
        THEN out'.cbs = {<<openSubs[id], "onevent", "">>}
        ELSE out'.cbs = {}

SubscribedBefore(k) == \E j \in 1..(k - 1) : rpcCalls[j].call = "subscribe"

\* C17: no request (connect, sign_event, nip04_encrypt, nip04_decrypt) is
\* sent before the session's subscription has been dispatched; and in
\* blockUntilReady the connect request is sent by a timer of 100 ms that
\* starts once the subscription is open.
C17_SubscriptionBeforeRequests ==
    [][/\ \A k \in 1..Len(rpcCalls') :
            rpcCalls'[k].call = "sendRequest" => SubscribedBefore(k)
       /\ lastOp'[1] = "subscribed" =>
            out'.scheduled = {<<"sendRequest", HandshakeDelay>>}
       /\ lastOp'[1] = "handshake-timer" =>
            /\ readyCalls[lastOp'[2]].pc = "timer"
            /\ rpcCalls'[Len(rpcCalls')].method = "connect"
      ]_vars

\* C18: a session made from a human-readable identifier fails with
\* "Remote pubkey not set" only when the identifier does not resolve; when
\* it resolves, the call that started the lookup goes on to the
\* subscription with remotePubkey set.
C18_LookupBeforeGoingOn ==
    [][lastOp'[1] = "local-user" /\ nip05 # <<>> =>
            IF Nip05Directory(nip05) # ""
            THEN /\ readyCalls'[lastOp'[2]].pc = "subscribe"
                 /\ remotePubkey' = Nip05Directory(nip05)
            ELSE readyCalls'[lastOp'[2]].error = "Remote pubkey not set"
      ]_vars

\* C19: however many times blockUntilReady is called, the session asks for
\* its subscription once.
C19_OneSubscription ==
    Len(SelectSeq(rpcCalls, LAMBDA c : c.call = "subscribe")) <= 1

\* the population standard deviation of a non-empty log is below `limit`:
\* the mean of the squared deviations from the mean sum / n is below
\* limit^2, with both sides multiplied by n^3
StdDevBelow(durations, limit) ==
    LET n == Len(durations)
        sum == SumSeq(durations)
    IN  SumSeq([i \in 1..n |-> (n * durations[i] - sum) * (n * durations[i] - sum)])
            < limit * limit * n * n * n

ReconnectDelays == {t[2] : t \in {x \in out'.scheduled : x[1] = "reconnect"}}

\* C21: a reconnect scheduled for a connection that had been connected
\* before waits max(0, 60000 - (now - connectedAt)); for a connection that
\* never connected and whose every attempt failed, the reconnect scheduled
\* after the k-th failed attempt waits 5000 x k: 5000, 10000, 15000, ...
C21_ReconnectDelay ==
    [][\A delay \in ReconnectDelays :
          /\ out'.emitted # <<>>
          /\ out'.emitted[Len(out'.emitted)] = <<"delayed-connect", delay>>
              \/ out'.emitted[Len(out'.emitted)] = <<"disconnect">>
          /\ stats'.success > 0 =>
                \E elapsed \in Elapsed : delay = Max(0, ReconnectWindow - elapsed)
          /\ stats'.success = 0 /\ factoryThrows =>
                delay = ColdDelayUnit * stats'.attempts
      ]_vars

\* what handleReconnection leaves alone when it returns at once
ReconnectUntouched ==
    /\ reconnectTimeout' = reconnectTimeout
    /\ stats'.nextReconnectAt = stats.nextReconnectAt
    /\ out'.scheduled = {}
    /\ \A i \in 1..Len(out'.emitted) :
            out'.emitted[i][1] \notin {"flapping", "delayed-connect"}

\* C22: a step that enters the reconnect path while a reconnect timer is
\* pending creates no timer, leaves the pending timer and nextReconnectAt as
\* they were and emits neither flapping nor delayed-connect; when the step is
\* only that entry (the connect-timeout or a chained retry) the status is
\* unchanged and nothing at all is emitted.
C22_ReconnectIdempotent ==
    [][reconnectTimeout # NoTimer =>
          /\ lastOp'[1] = "connect-timeout" /\ connectTimeout = "rc" =>
                ReconnectUntouched /\ status' = status /\ out'.emitted = <<>>
          /\ lastOp'[1] = "chain-timer" =>
                ReconnectUntouched /\ status' = status /\ out'.emitted = <<>>
          /\ lastOp'[1] = "close" /\ status = "CONNECTED" => ReconnectUntouched
      ]_vars

\* a chained retry has expired while a reconnect timer was pending
C22_Witness ==
    /\ lastOp[1] = "chain-timer"
    /\ reconnectTimeout # NoTimer
    /\ out.scheduled = {}

\* what every connect() does: the connect-timeout is armed and one attempt
\* is counted
ConnectArmsAndCounts ==
    /\ connectTimeout' # "none"
    /\ stats'.attempts = stats.attempts + 1

C24_BadFrameDropped ==
    [][lastOp'[1] = "frame" =>
          /\ state' = state
          /\ out' = NoOut
      ]_vars

\* the step is the close event of a socket that a later connect() replaced
SupersededSocketCloses ==
    /\ lastOp'[1] = "close"
    /\ \E s \in 1..Len(socks) : s # ws /\ socks[s] # "CLOSED" /\ socks'[s] = "CLOSED"

\* C25: the close event of a superseded socket does not touch the connection
\* that replaced it: a Connected status stays Connected, no duration is
\* recorded and no reconnect is scheduled.
C25_StaleCloseIgnored ==
    [][SupersededSocketCloses =>
          /\ status = "CONNECTED" => status' = "CONNECTED"
          /\ stats'.durations = stats.durations
          /\ reconnectTimeout' = reconnectTimeout
          /\ out'.scheduled = {}
      ]_vars

\* the last step ended an auth attempt without success: the policy returned
\* falsy, or true with no signer, or the relay refused the auth event
AuthAttemptFailed ==
    \/ lastOp[1] = "auth-policy" /\ lastOp[2] = "falsy"
    \/ lastOp[1] = "auth-policy" /\ lastOp[2] = "true" /\ ~lastOp[3]
    \/ lastOp[1] = "OK" /\ lastOp[2] = AuthEventId /\ ~lastOp[3]

\* C26: a failed auth attempt does not leave the connection in
\* Authenticating: the status eventually becomes something else.
C26_AuthNeverStuck ==
    (status = "AUTHENTICATING" /\ AuthAttemptFailed) ~> (status # "AUTHENTICATING")

\* something is still due to run: a timer, or an auth attempt in progress
WorkPending ==
    \/ reconnectTimeout # NoTimer
    \/ connectTimeout # "none"
    \/ noticeTimers > 0
    \/ \E a \in 1..MAX_RECONNECT_ATTEMPTS : chainTimers[a] > 0
    \/ authFlows # <<>>

\* C27: when the connection's socket has closed and the host did not ask for
\* it, the status is Disconnected or Flapping, or a timer is pending that
\* will go on: the connection is never left idle in another status with its
\* socket closed.
C27_ClosedSocketRecovers ==
    ws # 0 /\ socks[ws] = "CLOSED" /\ status # "DISCONNECTING"
        => status \in {"DISCONNECTED", "FLAPPING"} \/ WorkPending

====
